---- MODULE Spec2Model ----
(***************************************************************************)
(* The chat client of langgraph-react: the useWebSocket hook               *)
(* (modules/client/services/useWebSocket.ts) and the page that drives it   *)
(* (modules/client/pages/index.tsx).                                       *)
(*                                                                         *)
(* State: the React state of one hook instance (isOpen, messages, ws), the *)
(* memoised uuid, the socket of the running effect, and the browser's      *)
(* WebSocket objects (readyState, frames handed to send()).  Every handler *)
(* is one action.  Strings are TLA+ strings; the text a user types is a    *)
(* sequence of characters so that String.prototype.trim is computed.       *)
(***************************************************************************)
EXTENDS Integers, Sequences, FiniteSets, TLC

VARIABLES
    isOpen,       \* useState(false)                     useWebSocket.ts:15
    messages,     \* useState<ChatMsg[]>([seed])         useWebSocket.ts:16
    ws,           \* useState<WebSocket|null>(null); 0 is null   :19
    uuid,         \* useMemo(() => crypto.randomUUID(), [])      :21
    socket,       \* the `socket` of the effect that is in force :24
    readyState,   \* WebSocket.readyState of every socket created
    sent,         \* per socket, the frames handed to socket.send()
    mounted,      \* the component that called the hook is mounted
    userAppended, \* history: number of User messages ever appended
    last          \* history: which handler ran last and how it left

vars == <<isOpen, messages, ws, uuid, socket, readyState, sent, mounted,
          userAppended, last>>

-----------------------------------------------------------------------------
(* Bounds of the model *)

MaxMsgs == 4
MaxText == 2
MaxSockets == 2
MaxSent == 1

-----------------------------------------------------------------------------
(* Chat messages *)

\* type ChatMsg = { user: ChatUser; msg: string; streaming?: boolean }
\* The optional field is "undefined" when the literal leaves it out.
ChatMsg(user, msg, streaming) ==
    [user |-> user, msg |-> msg, streaming |-> streaming]

SeedMsg == ChatMsg("Bot", "Welcome! How can I be of service today?", "undefined")

SeedMessages == <<SeedMsg>>

\* The truthiness test the code applies to m.streaming.
IsStreaming(m) == m.streaming = "true"

-----------------------------------------------------------------------------
(* JSON values, as JSON.parse returns them *)

JStr(s) == [t |-> "string", s |-> s]
JNum(n) == [t |-> "number", n |-> n]
JBool(b) == [t |-> "boolean", b |-> b]
JNull == [t |-> "null"]
Member(k, v) == [key |-> k, value |-> v]
JObj(members) == [t |-> "object", members |-> members]
JArr(items) == [t |-> "array", items |-> items]
Undefined == [t |-> "undefined"]
SyntaxError == [t |-> "SyntaxError"]

StreamKey == "on_chat_model_stream"
EndKey == "on_chat_model_end"

\* typeof parsed === "object" && parsed !== null
IsObject(v) == v.t \in {"object", "array"}

\* Object.keys(obj): own enumerable keys in enumeration order
ObjectKeys(obj) ==
    IF obj.t = "array"
    THEN [i \in 1..Len(obj.items) |-> ToString(i - 1)]
    ELSE [i \in 1..Len(obj.members) |-> obj.members[i].key]

\* obj[k]
Get(obj, k) ==
    LET keys == ObjectKeys(obj)
        hits == {i \in 1..Len(keys) : keys[i] = k}
    IN  IF hits = {} THEN Undefined
        ELSE LET i == CHOOSE j \in hits : TRUE
             IN  IF obj.t = "array" THEN obj.items[i] ELSE obj.members[i].value

RECURSIVE JSONstringify(_)
RECURSIVE StringifyMembers(_)
RECURSIVE StringifyItems(_)

StringifyMembers(ms) ==
    IF ms = <<>> THEN ""
    ELSE "\"" \o ms[1].key \o "\":" \o JSONstringify(ms[1].value)
         \o (IF Len(ms) > 1 THEN "," ELSE "") \o StringifyMembers(Tail(ms))

StringifyItems(xs) ==
    IF xs = <<>> THEN ""
    ELSE JSONstringify(xs[1])
         \o (IF Len(xs) > 1 THEN "," ELSE "") \o StringifyItems(Tail(xs))

\* JSON.stringify(value)
JSONstringify(v) ==
    CASE v.t = "string"  -> "\"" \o v.s \o "\""
      [] v.t = "number"  -> ToString(v.n)
      [] v.t = "boolean" -> IF v.b THEN "true" ELSE "false"
      [] v.t = "null"    -> "null"
      [] v.t = "object"  -> "{" \o StringifyMembers(v.members) \o "}"
      [] v.t = "array"   -> "[" \o StringifyItems(v.items) \o "]"

-----------------------------------------------------------------------------
(* Inbound frames: the MessageEvent the socket delivers.  A text frame is  *)
(* drawn together with what JSON.parse makes of its text.                  *)

BinaryFrame == [type |-> "binary"]
TextFrame(data, parsed) == [type |-> "text", data |-> data, parsed |-> parsed]
JsonFrame(v) == TextFrame(JSONstringify(v), v)

Chunks == {"A", "B"}

SingleMembers ==
    {Member(StreamKey, JStr(c)) : c \in Chunks \cup {""}}
    \cup {Member(EndKey, JBool(b)) : b \in BOOLEAN}
    \cup {Member("custom_event", JObj(<<Member("x", JNum(1))>>)),
          Member("other", JNum(1))}

PairMembers ==
    {Member(StreamKey, JStr("")), Member(StreamKey, JStr("A")),
     Member(EndKey, JBool(TRUE)), Member("other", JNum(1))}

Objects ==
    {JObj(<<>>)}
    \cup {JObj(<<m>>) : m \in SingleMembers}
    \cup {JObj(<<p[1], p[2]>>) :
              p \in {q \in PairMembers \X PairMembers : q[1].key # q[2].key}}

JsonValues == Objects \cup {JArr(<<JNum(1)>>), JNull, JNum(7)}

PlainTexts == {"hello {"}

Frames ==
    {BinaryFrame}
    \cup {JsonFrame(v) : v \in JsonValues}
    \cup {TextFrame(d, SyntaxError) : d \in PlainTexts}

\* JSON.parse(event.data): the value, or SyntaxError when it throws
JSONparse(frame) == frame.parsed

-----------------------------------------------------------------------------
(* socket.onmessage, useWebSocket.ts:39-111 *)

\* prev.at(-1)
Last(prev) == IF prev = <<>> THEN Undefined ELSE prev[Len(prev)]

\* last && last.user === "Bot" && last.streaming
IsStreamingBot(prev) ==
    /\ prev # <<>>
    /\ Last(prev).user = "Bot"
    /\ IsStreaming(Last(prev))

\* applyStreamChunk with the chunk assigned instead of appended
applyStreamChunkAssign(prev, chunk) ==
    IF ~IsStreamingBot(prev)
    THEN Append(prev, ChatMsg("Bot", chunk, "true"))
    ELSE [prev EXCEPT ![Len(prev)].msg = chunk]

\* applyStreamChunk with the chunk put in front of the bubble's text
applyStreamChunkPrepend(prev, chunk) ==
    IF ~IsStreamingBot(prev)
    THEN Append(prev, ChatMsg("Bot", chunk, "true"))
    ELSE [prev EXCEPT ![Len(prev)].msg = chunk \o @]

\* applyStreamChunk resuming the latest streaming bubble wherever it is
applyStreamChunkResume(prev, chunk) ==
    LET open == {i \in 1..Len(prev) : prev[i].user = "Bot" /\ IsStreaming(prev[i])}
    IN  IF open = {}
        THEN Append(prev, ChatMsg("Bot", chunk, "true"))
        ELSE LET i == CHOOSE j \in open : \A k \in open : k <= j
             IN  [prev EXCEPT ![i].msg = @ \o chunk]

\* applyStreamChunk(prev, chunk), useWebSocket.ts:57-74
applyStreamChunk(prev, chunk) ==
    IF ~IsStreamingBot(prev)
    THEN Append(prev, ChatMsg("Bot", chunk, "true"))
    ELSE [prev EXCEPT ![Len(prev)].msg = @ \o chunk]

\* applyEndOfTurn closing every streaming message of the list
applyEndOfTurnEvery(prev) ==
    IF ~IsStreamingBot(prev)
    THEN prev
    ELSE [i \in 1..Len(prev) |->
             IF IsStreaming(prev[i]) THEN [prev[i] EXCEPT !.streaming = "false"]
             ELSE prev[i]]

\* applyEndOfTurn(prev), useWebSocket.ts:84-92
applyEndOfTurn(prev) ==
    IF ~IsStreamingBot(prev)
    THEN prev
    ELSE [prev EXCEPT ![Len(prev)].streaming = "false"]

\* payloadKeys without the filter on the two reserved keys
payloadKeysUnfiltered(obj) == ObjectKeys(obj)

\* Object.keys(obj).filter(k => k !== StreamKey && k !== EndKey)
payloadKeys(obj) ==
    SelectSeq(ObjectKeys(obj), LAMBDA k : k # StreamKey /\ k # EndKey)

\* the bell prefix of a custom-event bubble (U+1F514 and a space)
Bell == "(bell) "

\* the custom-event bubble put at the front of the list
customEventFirst(prev, obj) ==
    LET k == payloadKeys(obj)[1]
    IN  <<ChatMsg("Bot", Bell \o k \o ": " \o JSONstringify(Get(obj, k)),
                  "undefined")>> \o prev

\* the custom-event bubble, useWebSocket.ts:106-110
customEvent(prev, obj) ==
    LET k == payloadKeys(obj)[1]
    IN  Append(prev, ChatMsg("Bot", Bell \o k \o ": " \o JSONstringify(Get(obj, k)),
                             "undefined"))

\* the chunk test without chunk.length > 0
IsChunkAnyString(obj) == Get(obj, StreamKey).t = "string"

\* typeof chunk === "string" && chunk.length > 0
IsChunk(obj) ==
    LET chunk == Get(obj, StreamKey)
    IN  chunk.t = "string" /\ chunk.s # ""

\* obj.on_chat_model_end === true
IsEnd(obj) == Get(obj, EndKey) = JBool(TRUE)

\* the plain-text branch with the frame dropped
plainTextDropped(prev, data) == prev

\* the plain-text bubble of the catch, useWebSocket.ts:47-50
plainText(prev, data) == Append(prev, ChatMsg("Bot", data, "undefined"))

\* the returns of onmessage with the completion test before the chunk test
BranchEndFirst(frame) ==
    IF frame.type # "text" THEN "ignored"
    ELSE LET parsed == JSONparse(frame)
         IN  IF parsed = SyntaxError THEN "plain"
             ELSE IF ~IsObject(parsed) THEN "ignored"
             ELSE IF IsEnd(parsed) THEN "end"
             ELSE IF IsChunk(parsed) THEN "chunk"
             ELSE IF Len(payloadKeys(parsed)) = 0 THEN "ignored"
             ELSE "custom"

\* The return onmessage leaves through for a frame.
Branch(frame) ==
    IF frame.type # "text" THEN "ignored"
    ELSE LET parsed == JSONparse(frame)
         IN  IF parsed = SyntaxError THEN "plain"
             ELSE IF ~IsObject(parsed) THEN "ignored"
             ELSE IF IsChunk(parsed) THEN "chunk"
             ELSE IF IsEnd(parsed) THEN "end"
             ELSE IF Len(payloadKeys(parsed)) = 0 THEN "ignored"
             ELSE "custom"

\* The message list onmessage leaves behind for a frame, given the list before.
onmessage(prev, frame) ==
    LET b == Branch(frame)
    IN  CASE b = "ignored" -> prev
          [] b = "plain"   -> plainText(prev, frame.data)
          [] b = "chunk"   -> applyStreamChunk(prev, Get(JSONparse(frame), StreamKey).s)
          [] b = "end"     -> applyEndOfTurn(prev)
          [] b = "custom"  -> customEvent(prev, JSONparse(frame))

-----------------------------------------------------------------------------
(* The browser's WebSocket *)

Sockets == 1..MaxSockets

\* readyState is one of "CONNECTING", "OPEN", "CLOSING", "CLOSED"; "NONE" marks
\* a socket that has not been created yet.

\* socket.send(data): queued on an OPEN socket, InvalidStateError on a
\* CONNECTING one, discarded on a CLOSING or CLOSED one.
Transmit(log, s, frame) ==
    IF readyState[s] = "OPEN" THEN [log EXCEPT ![s] = Append(@, frame)] ELSE log

Raises(s) == readyState[s] = "CONNECTING"

\* socket.close(): a CONNECTING or OPEN socket starts closing.
CloseOf(rs) == IF rs \in {"CONNECTING", "OPEN"} THEN "CLOSING" ELSE rs

\* delivery that goes on while the socket is closing
DeliversClosing(s) == readyState[s] \in {"OPEN", "CLOSING"}

\* The browser fires the message event of a received frame only while
\* readyState is OPEN; a frame received in any other state is discarded.
Delivers(s) == readyState[s] = "OPEN"

\* A frame received on socket s: the list after the browser's dispatch and
\* the handler of useWebSocket.ts:39-111, which stays attached to the socket
\* after the cleanup.  React ignores setMessages after the unmount.
receive(s, prev, frame) ==
    IF Delivers(s) /\ mounted THEN onmessage(prev, frame) ELSE prev

\* the init frame carrying an identifier drawn again at onopen
InitFrameFresh == [uuid |-> "uuid-2", init |-> TRUE]

\* JSON.stringify({ uuid, init: true }), as the object it encodes
InitFrame == [uuid |-> uuid, init |-> TRUE]

\* JSON.stringify({ uuid, message: t }), as the object it encodes
MessageFrame(t) == [uuid |-> uuid, message |-> t]

IsInitFrame(f) == "init" \in DOMAIN f
IsMessageFrame(f) == "message" \in DOMAIN f

\* The connection state of the session: that of the socket of the effect in force.
ConnState ==
    CASE readyState[socket] = "CONNECTING" -> "Connecting"
      [] readyState[socket] = "OPEN"       -> "Open"
      [] OTHER                             -> "Closed"

-----------------------------------------------------------------------------
(* User input *)

WhiteSpace == {" ", "\t", "\n"}

RECURSIVE TrimStart(_)
TrimStart(cs) ==
    IF cs # <<>> /\ Head(cs) \in WhiteSpace THEN TrimStart(Tail(cs)) ELSE cs

RECURSIVE TrimEnd(_)
TrimEnd(cs) ==
    IF cs # <<>> /\ cs[Len(cs)] \in WhiteSpace
    THEN TrimEnd(SubSeq(cs, 1, Len(cs) - 1))
    ELSE cs

\* String.prototype.trim, on the characters of the string
Trim(cs) == TrimEnd(TrimStart(cs))

\* the string made of the characters cs
RECURSIVE Str(_)
Str(cs) == IF cs = <<>> THEN "" ELSE Head(cs) \o Str(Tail(cs))

\* what the user may have typed into the textarea
Inputs == {<<>>, <<" ">>, <<"\t", "\n">>, <<"h", "i">>, <<" ", "h", "i", "\n">>}

Return(ret, msgs, log, raised) ==
    [ret |-> ret, messages |-> msgs, sent |-> log, raised |-> raised]

\* sendMessage without the readyState test of line 125
sendMessageAnyState(text) ==
    LET t == Str(Trim(text))
    IN  IF t = "" THEN Return("blank", messages, sent, FALSE)
        ELSE IF ws = 0
             THEN Return("notopen", messages, sent, FALSE)
        ELSE Return("sent", Append(messages, ChatMsg("User", t, "undefined")),
                    Transmit(sent, ws, MessageFrame(t)), Raises(ws))

\* sendMessage without the blank test of line 124
sendMessageBlank(text) ==
    LET t == Str(Trim(text))
    IN  IF ws = 0 \/ readyState[ws] # "OPEN"
        THEN Return("notopen", messages, sent, FALSE)
        ELSE Return("sent", Append(messages, ChatMsg("User", t, "undefined")),
                    Transmit(sent, ws, MessageFrame(t)), Raises(ws))

\* sendMessage putting the User message in front of a streaming bubble, which
\* stays the trailing message
sendMessageBeforeBubble(text) ==
    LET t == Str(Trim(text))
        m == ChatMsg("User", t, "undefined")
    IN  IF t = "" THEN Return("blank", messages, sent, FALSE)
        ELSE IF ws = 0 \/ readyState[ws] # "OPEN"
             THEN Return("notopen", messages, sent, FALSE)
        ELSE Return("sent",
                    IF IsStreamingBot(messages)
                    THEN Append(Append(SubSeq(messages, 1, Len(messages) - 1), m),
                                Last(messages))
                    ELSE Append(messages, m),
                    Transmit(sent, ws, MessageFrame(t)), Raises(ws))

\* sendMessage(text), useWebSocket.ts:121-131: the return it takes and the
\* message list and transmitted frames it leaves.
sendMessage(text) ==
    LET t == Str(Trim(text))
    IN  IF t = "" THEN Return("blank", messages, sent, FALSE)
        ELSE IF ws = 0 \/ readyState[ws] # "OPEN"
             THEN Return("notopen", messages, sent, FALSE)
        ELSE Return("sent", Append(messages, ChatMsg("User", t, "undefined")),
                    Transmit(sent, ws, MessageFrame(t)), Raises(ws))

\* onSubmit with `input` in the textarea, index.tsx:17-22: it returns early
\* on blank input and calls sendMessage(input) otherwise.
submit(input) ==
    IF Str(Trim(input)) = ""
    THEN Return("blank", messages, sent, FALSE)
    ELSE sendMessage(input)

\* reset leaving the list empty
resetEmpty == <<>>

\* reset(), useWebSocket.ts:133-137: the list it sets
reset == <<ChatMsg("Bot", "Welcome! How can I be of service today?", "undefined")>>

\* onopen sending nothing
onopenFramesNone == <<>>

\* the frames socket.onopen sends, useWebSocket.ts:29
onopenFrames == <<InitFrame>>

\* the cleanup without the try/catch around socket.close()
cleanupNoCatch(raises) ==
    [closed |-> socket,
     readyState |-> IF raises THEN readyState
                    ELSE [readyState EXCEPT ![socket] = CloseOf(@)],
     ws |-> IF raises THEN ws ELSE 0,
     raised |-> raises]

\* The cleanup of the effect, useWebSocket.ts:113-118, when socket.close()
\* raises or not: the socket close() is called on, the readyState it leaves,
\* the handle setWs leaves, and whether an exception leaves the cleanup.
cleanup(raises) ==
    [closed |-> socket,
     readyState |-> IF raises THEN readyState
                    ELSE [readyState EXCEPT ![socket] = CloseOf(@)],
     ws |-> 0,
     raised |-> FALSE]

\* socket.close() without arguments raises nothing in a browser
CloseRaises == {FALSE}

\* the effect run again on the socket already in force
newWebSocketReused == socket

\* new WebSocket(url), useWebSocket.ts:24: a socket that did not exist before
newWebSocket == socket + 1

-----------------------------------------------------------------------------
(* The state machine *)

\* crypto.randomUUID(): the code never inspects the value it draws
UUIDs == {"uuid-1"}

\* The state after the first render and the first run of the effect:
\* new WebSocket(url); setWs(socket).  useWebSocket.ts:15-25
Init ==
    /\ isOpen = FALSE
    /\ messages = SeedMessages
    /\ ws = 1
    /\ uuid \in UUIDs
    /\ socket = 1
    /\ readyState = [s \in Sockets |-> IF s = 1 THEN "CONNECTING" ELSE "NONE"]
    /\ sent = [s \in Sockets |-> <<>>]
    /\ mounted = TRUE
    /\ userAppended = 0
    /\ last = "lifecycle"

\* A state setter called after the unmount is ignored by React.

\* socket.onopen, useWebSocket.ts:27-30
onopen(s) ==
    /\ readyState[s] = "CONNECTING"
    /\ readyState' = [readyState EXCEPT ![s] = "OPEN"]
    /\ isOpen' = (IF mounted THEN TRUE ELSE isOpen)
    /\ sent' = [sent EXCEPT ![s] = @ \o onopenFrames]
    /\ last' = "lifecycle"
    /\ UNCHANGED <<messages, ws, uuid, socket, mounted, userAppended>>

\* socket.onclose, useWebSocket.ts:32-35: the close event of a clean close
onclose(s) ==
    /\ readyState[s] \in {"OPEN", "CLOSING"}
    /\ readyState' = [readyState EXCEPT ![s] = "CLOSED"]
    /\ isOpen' = (IF mounted THEN FALSE ELSE isOpen)
    /\ ws' = (IF mounted THEN 0 ELSE ws)
    /\ last' = "lifecycle"
    /\ UNCHANGED <<messages, uuid, socket, sent, mounted, userAppended>>

\* socket.onerror then socket.onclose, useWebSocket.ts:32-37: a failed
\* connection fires error and close in one task, readyState already CLOSED.
onerror(s) ==
    /\ readyState[s] \in {"CONNECTING", "OPEN", "CLOSING"}
    /\ readyState' = [readyState EXCEPT ![s] = "CLOSED"]
    /\ isOpen' = (IF mounted THEN FALSE ELSE isOpen)
    /\ ws' = (IF mounted THEN 0 ELSE ws)
    /\ last' = "lifecycle"
    /\ UNCHANGED <<messages, uuid, socket, sent, mounted, userAppended>>

\* The effect runs again (url changed, or a development double run): the
\* cleanup of useWebSocket.ts:113-118, then the body of :24-25.
useEffect ==
    /\ mounted
    /\ socket < MaxSockets
    /\ \E raises \in CloseRaises :
         readyState' = [cleanup(raises).readyState EXCEPT ![newWebSocket] = "CONNECTING"]
    /\ socket' = newWebSocket
    /\ ws' = newWebSocket
    /\ last' = "lifecycle"
    /\ UNCHANGED <<isOpen, messages, uuid, sent, mounted, userAppended>>

\* The component unmounts: the cleanup of useWebSocket.ts:113-118 alone.
unmount ==
    /\ mounted
    /\ \E raises \in CloseRaises :
         /\ readyState' = cleanup(raises).readyState
         /\ ws' = cleanup(raises).ws
    /\ mounted' = FALSE
    /\ last' = "unmount " \o ConnState
    /\ UNCHANGED <<isOpen, messages, uuid, socket, sent, userAppended>>

\* A frame arrives on an open socket: socket.onmessage, useWebSocket.ts:39-111
message(s, frame) ==
    /\ Delivers(s)
    /\ LET next == receive(s, messages, frame)
       IN  /\ Len(next) <= MaxMsgs
           /\ IsStreamingBot(next) => Len(Last(next).msg) <= MaxText
           /\ messages' = next
    /\ last' = Branch(frame)
    /\ UNCHANGED <<isOpen, ws, uuid, socket, readyState, sent, mounted, userAppended>>

\* onSubmit with `input` in the textarea, index.tsx:17-22
onSubmit(input) ==
    /\ mounted
    /\ LET r == submit(input)
       IN  /\ Len(r.messages) <= MaxMsgs
           /\ r.ret = "sent" => userAppended < MaxSent
           /\ messages' = r.messages
           /\ sent' = r.sent
           /\ userAppended' = userAppended + Len(r.messages) - Len(messages)
           /\ last' = r.ret
    /\ UNCHANGED <<isOpen, ws, uuid, socket, readyState, mounted>>

\* the Reset button closing the connection as well (reset and reconnect)
onResetReconnect ==
    /\ mounted
    /\ messages' = reset
    /\ readyState' = [readyState EXCEPT ![socket] = CloseOf(@)]
    /\ ws' = 0
    /\ last' = IF IsStreamingBot(messages) THEN "reset-midstream" ELSE "reset"
    /\ UNCHANGED <<isOpen, uuid, socket, sent, mounted, userAppended>>

\* the Reset button, index.tsx:83 -> reset(), useWebSocket.ts:133-137
onReset ==
    /\ mounted
    /\ messages' = reset
    /\ last' = IF IsStreamingBot(messages) THEN "reset-midstream" ELSE "reset"
    /\ UNCHANGED <<isOpen, ws, uuid, socket, readyState, sent, mounted, userAppended>>

Next ==
    \/ \E s \in Sockets : onopen(s)
    \/ \E s \in Sockets : onclose(s)
    \/ \E s \in Sockets : onerror(s)
    \/ useEffect
    \/ unmount
    \/ \E s \in Sockets, frame \in Frames : message(s, frame)
    \/ \E input \in Inputs : onSubmit(input)
    \/ onReset

Spec == Init /\ [][Next]_vars

-----------------------------------------------------------------------------
(* Vocabulary of the claims *)

\* last, after reset(): "reset-midstream" when a bubble was streaming
ResetLabels == {"reset", "reset-midstream"}

\* Idle: the list is empty or its last message is not streaming.
Idle(list) == list = <<>> \/ ~IsStreaming(Last(list))

\* A frame can be delivered: some socket is open.
Receiving == \E s \in Sockets : readyState[s] = "OPEN"

\* new is old with one more message {user, msg, streaming} at the end
Appended(old, new, user, msg, streaming) ==
    /\ Len(new) = Len(old) + 1
    /\ SubSeq(new, 1, Len(old)) = old
    /\ new[Len(new)].user = user
    /\ new[Len(new)].msg = msg
    /\ IsStreaming(new[Len(new)]) = streaming

\* The three shapes of a decoded object frame, in the spec's words.
IsObjectFrame(f) == f.type = "text" /\ f.parsed.t \in {"object", "array"}

IsFragmentFrame(f) ==
    /\ IsObjectFrame(f)
    /\ Get(f.parsed, StreamKey).t = "string"
    /\ Get(f.parsed, StreamKey).s # ""

IsCompletionFrame(f) ==
    /\ IsObjectFrame(f)
    /\ ~IsFragmentFrame(f)
    /\ Get(f.parsed, EndKey) = JBool(TRUE)

FragmentFrame(c) == JsonFrame(JObj(<<Member(StreamKey, JStr(c))>>))

CompletionFrame == JsonFrame(JObj(<<Member(EndKey, JBool(TRUE))>>))

\* the frames fs handled one after the other, starting from the list prev
RECURSIVE Feed(_, _)
Feed(prev, fs) == IF fs = <<>> THEN prev ELSE Feed(onmessage(prev, Head(fs)), Tail(fs))

\* runs of one to MaxText fragments
Runs == UNION {[1..n -> Chunks] : n \in 1..MaxText}

-----------------------------------------------------------------------------
(* C1 *)

StreamingCount == Cardinality({i \in 1..Len(messages) : IsStreaming(messages[i])})

\* C1: in every reachable state at most one message of the list has
\* streaming = true.
C1_AtMostOneStreaming == StreamingCount <= 1

-----------------------------------------------------------------------------
(* C2 *)

\* new keeps every message of old in place, with its author; a text changes
\* only at the end of the list, on a streaming message, by a suffix.
Preserved(old, new) ==
    /\ Len(new) >= Len(old)
    /\ \A i \in 1..Len(old) :
         /\ new[i].user = old[i].user
         /\ \/ new[i].msg = old[i].msg
            \/ /\ i = Len(old)
               /\ IsStreaming(old[i])
               /\ \E c \in Chunks : new[i].msg = old[i].msg \o c

\* C2: every event other than reset preserves the list: no message is removed
\* or reordered, no author changes, the text of a message that is not
\* streaming never changes, and the only text change is a suffix appended to
\* the trailing message while it is streaming.
C2_ListPreserved == [][last' \notin ResetLabels => Preserved(messages, messages')]_vars

\* a streaming bubble that a second fragment has extended
C2_Witness ==
    /\ last = "chunk"
    /\ Len(messages) >= 2
    /\ Last(messages) = ChatMsg("Bot", "AB", "true")

-----------------------------------------------------------------------------
(* C3 *)

\* C3: from Idle, non-empty fragments s1..sn followed by a completion signal
\* add exactly one message: Bot, text s1 + ... + sn in arrival order, not
\* streaming; the earlier messages are unchanged.
C3_TurnAssembled ==
    (Receiving /\ Idle(messages)) =>
        \A run \in Runs :
            LET frames == [i \in 1..Len(run) |-> FragmentFrame(run[i])]
                final == Feed(messages, Append(frames, CompletionFrame))
            IN  /\ Appended(messages, final, "Bot", Str(run), FALSE)
                /\ final[Len(final)].streaming = "false"

\* the turn "A", "B", completion has been received after the seed
C3_Witness ==
    /\ last = "end"
    /\ messages = <<SeedMsg, ChatMsg("Bot", "AB", "false")>>

-----------------------------------------------------------------------------
(* C4 *)

\* the number of user-message frames transmitted, over all sockets
MessageFrameCount ==
    Cardinality(UNION {{<<s, i>> : i \in {j \in 1..Len(sent[s]) :
                                            IsMessageFrame(sent[s][j])}} :
                       s \in Sockets})

\* C4: a submit of non-empty text while the connection is Open appends
\* exactly one trailing message {User, text, not streaming} and transmits
\* exactly one frame {uuid, message: text} with that text; the number of
\* message frames transmitted equals the number of User messages appended.
C4_SubmitRoundTrip ==
    /\ MessageFrameCount = userAppended
    /\ \A input \in Inputs :
         LET t == Str(Trim(input))
             r == submit(input)
         IN  (ConnState = "Open" /\ t # "") =>
                 /\ Appended(messages, r.messages, "User", t, FALSE)
                 /\ r.sent = [sent EXCEPT ![socket] = Append(@, MessageFrame(t))]

-----------------------------------------------------------------------------
(* C5 *)

SubmitReturns == {"blank", "notopen", "sent"}

\* C5: a send while the connection state is not Open is a silent no-op: no
\* frame is transmitted, no message is appended, no error is raised, and the
\* message list and the connection state are unchanged.
C5_SendNotOpenNoop ==
    /\ [](\A input \in Inputs :
            ConnState # "Open" =>
                LET r == sendMessage(input)
                IN  r.messages = messages /\ r.sent = sent /\ ~r.raised)
    /\ [][(last' \in SubmitReturns /\ ConnState # "Open") =>
            UNCHANGED <<messages, sent, isOpen, ws, socket, readyState>>]_vars

\* a send was turned away at line 125 on a connection closed after it was open
C5_Witness ==
    /\ last = "notopen"
    /\ ConnState = "Closed"
    /\ sent[socket] # <<>>

-----------------------------------------------------------------------------
(* C6 *)

IsBlank(input) == \A i \in 1..Len(input) : input[i] \in WhiteSpace

\* C6: a user submit whose text is empty or only whitespace changes nothing
\* in any state: the message list is unchanged and no frame is transmitted.
C6_BlankSubmitNoop ==
    \A input \in Inputs :
        IsBlank(input) =>
            /\ sendMessage(input).messages = messages
            /\ sendMessage(input).sent = sent
            /\ submit(input).messages = messages
            /\ submit(input).sent = sent

\* a blank submit was made on an open connection
C6_Witness ==
    /\ last = "blank"
    /\ ConnState = "Open"
    /\ ws = socket

-----------------------------------------------------------------------------
(* C7 *)

\* C7: on each connection exactly one frame {uuid, init: true} is transmitted,
\* at the Connecting -> Open transition, and it precedes every user-message
\* frame of that connection.
C7_InitFrameFirst ==
    /\ [](\A s \in Sockets :
            /\ readyState[s] \in {"NONE", "CONNECTING"} => sent[s] = <<>>
            /\ readyState[s] = "OPEN" => sent[s] # <<>>
            /\ \A i \in 1..Len(sent[s]) :
                 /\ IsInitFrame(sent[s][i]) <=> i = 1
                 /\ IsMessageFrame(sent[s][i]) <=> i > 1)
    /\ [][\A s \in Sockets :
            (readyState[s] = "CONNECTING" /\ readyState'[s] = "OPEN")
                <=> (sent[s] = <<>> /\ sent'[s] = <<[uuid |-> uuid, init |-> TRUE]>>)]_vars

\* a connection that has sent its init frame and then a user message
C7_Witness ==
    \E s \in Sockets :
        /\ Len(sent[s]) = 2
        /\ IsInitFrame(sent[s][1])
        /\ IsMessageFrame(sent[s][2])

-----------------------------------------------------------------------------
(* C8 *)

\* C8: reset() in any state replaces the message list by exactly the single
\* seed message; afterwards the reducer is Idle and no message is streaming.
C8_ResetToSeed ==
    last \in ResetLabels =>
        /\ messages = SeedMessages
        /\ Idle(messages)
        /\ StreamingCount = 0

\* a reset made while a bubble was streaming, after a user message
C8_Witness ==
    /\ last = "reset-midstream"
    /\ userAppended > 0

-----------------------------------------------------------------------------
(* C9 and C10 *)

\* the keys of a frame other than the two reserved keys
SignalKeys(obj) ==
    SelectSeq(ObjectKeys(obj), LAMBDA k : k \notin {StreamKey, EndKey})

\* a generic signal frame: an object frame that is neither a non-empty
\* fragment nor a completion signal and names an event
SignalFrames ==
    {f \in Frames : /\ IsObjectFrame(f)
                    /\ ~IsFragmentFrame(f)
                    /\ ~IsCompletionFrame(f)
                    /\ SignalKeys(f.parsed) # <<>>}

SignalText(k, v) == Bell \o k \o ": " \o JSONstringify(v)

\* C9: a generic signal that arrives while a bubble is streaming is appended
\* as a new trailing Bot message that is not streaming, and the interrupted
\* bubble is never extended again: the next non-empty fragment opens a new
\* streaming bubble that holds only that fragment.
C9_SignalInterrupts ==
    /\ []((Receiving /\ ~Idle(messages)) =>
            \A f \in SignalFrames, c \in Chunks :
                LET m1 == onmessage(messages, f)
                    m2 == onmessage(m1, FragmentFrame(c))
                IN  /\ Len(m1) = Len(messages) + 1
                    /\ SubSeq(m1, 1, Len(messages)) = messages
                    /\ Last(m1).user = "Bot"
                    /\ ~IsStreaming(Last(m1))
                    /\ Appended(m1, m2, "Bot", c, TRUE))
    /\ [][last' \notin ResetLabels =>
            \A i \in 1..(Len(messages) - 1) :
                i <= Len(messages') /\ messages'[i] = messages[i]]_vars

\* a bubble, the signal that interrupted it, and the new bubble of the next
\* fragment
C9_Witness ==
    /\ last = "chunk"
    /\ Len(messages) = 4
    /\ messages[2] = ChatMsg("Bot", "A", "true")
    /\ messages[3] = ChatMsg("Bot", SignalText("other", JNum(1)), "undefined")
    /\ messages[4] = ChatMsg("Bot", "B", "true")

-----------------------------------------------------------------------------
(* C11 *)

\* texts that JSON.parse rejects
Undecodable == PlainTexts \cup {" hi ", "{\"on_chat_model_stream\":", ""}

\* C11: in every state, a text frame that fails JSON decoding appends exactly
\* one message: Bot, the raw text of the frame verbatim, not streaming; the
\* earlier messages are unchanged.
C11_PlainTextAppended ==
    Receiving =>
        \A d \in Undecodable :
            Appended(messages, onmessage(messages, TextFrame(d, SyntaxError)),
                     "Bot", d, FALSE)

\* an undecodable frame received while a bubble was streaming
C11_Witness ==
    /\ last = "plain"
    /\ Len(messages) = 3
    /\ IsStreaming(messages[2])
    /\ messages[3] = ChatMsg("Bot", "hello {", "undefined")

-----------------------------------------------------------------------------
(* C12 *)

\* the cleanup of the effect that created socket s has run
TornDown(s) == readyState[s] # "NONE" /\ (s < socket \/ ~mounted)

-----------------------------------------------------------------------------
(* C13 *)

\* the connection state of the transport s
TransportState(s) ==
    CASE readyState[s] = "NONE"       -> "None"
      [] readyState[s] = "CONNECTING" -> "Connecting"
      [] readyState[s] = "OPEN"       -> "Open"
      [] OTHER                        -> "Closed"

TransportMoves ==
    {<<"None", "Connecting">>, <<"Connecting", "Open">>,
     <<"Open", "Closed">>, <<"Connecting", "Closed">>}

\* C13: the connection state of one transport only moves Connecting -> Open,
\* Open -> Closed or Connecting -> Closed (after its creation); the error or
\* close event of a transport leaves it Closed and the indicator off; a
\* transport that is Closed never becomes Open or Connecting again.
C13_TransportMoves ==
    [][\A s \in Sockets :
         /\ \/ TransportState(s)' = TransportState(s)
            \/ <<TransportState(s), TransportState(s)'>> \in TransportMoves
         /\ (readyState[s] # "CLOSED" /\ readyState'[s] = "CLOSED") =>
                (TransportState(s)' = "Closed" /\ (mounted => ~isOpen'))
         /\ TransportState(s) = "Closed" => TransportState(s)' = "Closed"]_vars

\* a transport that opened, sent a user message and was closed by an error or
\* a remote close, with no other transport created
C13_Witness ==
    /\ socket = 1
    /\ mounted
    /\ readyState[1] = "CLOSED"
    /\ Len(sent[1]) = 2
    /\ ~isOpen

-----------------------------------------------------------------------------
(* C14 *)

\* C14: every frame transmitted, init and user message alike, carries the
\* session identifier of the hook, and the identifier never changes while
\* the session is mounted, whatever happens (reset, connection close, a new
\* connection).
C14_OneSessionId ==
    /\ [](\A s \in Sockets : \A i \in 1..Len(sent[s]) : sent[s][i].uuid = uuid)
    /\ [][uuid' = uuid]_vars

\* frames sent on two connections of the session, a user message among them,
\* with a closed connection and a reset behind
C14_Witness ==
    /\ sent[1] # <<>>
    /\ sent[2] # <<>>
    /\ MessageFrameCount = 1
    /\ readyState[1] = "CLOSED"
    /\ last \in ResetLabels

-----------------------------------------------------------------------------
(* C15 *)

\* C15 as stated: an accepted submit of non-empty text appends the User
\* message and leaves the reducer state unchanged: Streaming before the
\* submit, Streaming after it; Idle before, Idle after.
C15_SubmitKeepsState ==
    \A input \in Inputs :
        LET r == submit(input)
        IN  r.ret = "sent" =>
                /\ Appended(messages, r.messages, "User", Str(Trim(input)), FALSE)
                /\ Idle(r.messages) <=> Idle(messages)

\* C15 as amended: an accepted submit of non-empty text, in either reducer
\* state, appends the User message as the trailing message and changes no
\* earlier message; the reducer is Idle afterwards, also when it was
\* Streaming before.
C15_SubmitMakesIdle ==
    \A input \in Inputs :
        LET r == submit(input)
        IN  r.ret = "sent" =>
                /\ Appended(messages, r.messages, "User", Str(Trim(input)), FALSE)
                /\ Idle(r.messages)

\* a submit accepted while a bubble was streaming
C15_Witness ==
    /\ last = "sent"
    /\ Len(messages) = 3
    /\ messages[2].user = "Bot" /\ IsStreaming(messages[2])
    /\ messages[3] = ChatMsg("User", "hi", "undefined")

-----------------------------------------------------------------------------
(* C16 *)

\* C16: in every reachable state a message with streaming = true is the last
\* message of the list: no message at a non-trailing position is streaming.
C16_StreamingIsTrailing ==
    \A i \in 1..(Len(messages) - 1) : ~IsStreaming(messages[i])

-----------------------------------------------------------------------------
(* C17 *)

CompletionFrames == {f \in Frames : IsCompletionFrame(f)}

\* C17: a completion signal received while Streaming sets the streaming flag
\* of the trailing message to false and changes nothing else (its text, its
\* author, the length of the list, every other message), and the reducer is
\* Idle afterwards; received while Idle it leaves the list unchanged.
C17_CompletionCloses ==
    Receiving =>
        \A f \in CompletionFrames :
            LET next == onmessage(messages, f)
                n == Len(messages)
            IN  IF ~Idle(messages)
                THEN /\ Len(next) = n
                     /\ \A i \in 1..(n - 1) : next[i] = messages[i]
                     /\ next[n].msg = messages[n].msg
                     /\ next[n].user = messages[n].user
                     /\ next[n].streaming = "false"
                     /\ Idle(next)
                ELSE next = messages

\* a bubble opened after a user message and closed by the completion signal
C17_Witness ==
    /\ last = "end"
    /\ messages = <<SeedMsg, ChatMsg("User", "hi", "undefined"),
                    ChatMsg("Bot", "A", "false")>>

-----------------------------------------------------------------------------
(* C18 *)

EmptyObjectFrame == JsonFrame(JObj(<<>>))

\* the frames whose fragment field is the empty string
EmptyFragmentFrames ==
    {f \in Frames \cup {JsonFrame(JObj(<<Member(StreamKey, JStr("")),
                                          Member(EndKey, JBool(FALSE))>>))} :
        IsObjectFrame(f) /\ Get(f.parsed, StreamKey) = JStr("")}

\* the frame f, n times in a row
Repeat(f, n) == [i \in 1..n |-> f]

MaxRepeat == 3

-----------------------------------------------------------------------------
(* C19 *)

\* frames with a non-empty fragment and a second key
FragmentPlusFrames ==
    {f \in Frames : IsFragmentFrame(f) /\ Len(ObjectKeys(f.parsed)) > 1}

\* frames with a non-empty fragment and the completion marker
FragmentAndCompletionFrames ==
    {f \in FragmentPlusFrames : Get(f.parsed, EndKey) = JBool(TRUE)}

\* frames with the completion marker, no non-empty fragment, and other keys
CompletionPlusFrames ==
    {f \in Frames : IsCompletionFrame(f) /\ SignalKeys(f.parsed) # <<>>}

\* C19: the shapes are tested in the order fragment, completion, generic
\* signal, and only the first match is applied.  A frame with a non-empty
\* fragment and a second key (the completion marker or any other) only opens
\* or extends the streaming bubble, which stays streaming; a frame with the
\* completion marker and other keys only closes the bubble and appends
\* nothing.
C19_FirstMatchOnly ==
    Receiving =>
        LET n == Len(messages)
        IN  /\ \A f \in FragmentPlusFrames :
                  LET c == Get(f.parsed, StreamKey).s
                      next == onmessage(messages, f)
                  IN  IF Idle(messages)
                      THEN /\ Appended(messages, next, "Bot", c, TRUE)
                           /\ Last(next) = ChatMsg("Bot", c, "true")
                      ELSE next = [messages EXCEPT ![n].msg = @ \o c]
            /\ \A f \in CompletionPlusFrames :
                  LET next == onmessage(messages, f)
                  IN  IF Idle(messages)
                      THEN next = messages
                      ELSE next = [messages EXCEPT ![n].streaming = "false"]

\* a streaming bubble that a frame with a fragment and the completion marker
\* extends and leaves streaming, fragment first or marker first
C19_Witness ==
    /\ last = "chunk"
    /\ Receiving
    /\ messages = <<SeedMsg, ChatMsg("Bot", "A", "true")>>
    /\ Cardinality(FragmentAndCompletionFrames) = 2
    /\ CompletionPlusFrames # {}
    /\ \A f \in FragmentAndCompletionFrames :
         onmessage(messages, f) = <<SeedMsg, ChatMsg("Bot", "AA", "true")>>

-----------------------------------------------------------------------------
(* C20 *)

\* C20: the teardown calls close() on the transport of the effect whatever
\* its connection state (Connecting, Open, or Closed after an error); whether
\* close() raises or not, no exception leaves the teardown and the handle is
\* cleared; a teardown step leaves the transport closing or closed.
C20_TeardownCloses ==
    /\ [](mounted =>
            \A raises \in BOOLEAN :
                LET r == cleanup(raises)
                IN  /\ r.closed = socket
                    /\ ~r.raised
                    /\ r.ws = 0
                    /\ ~raises => r.readyState[socket] \in {"CLOSING", "CLOSED"})
    /\ [][(socket' # socket \/ (mounted /\ ~mounted')) =>
            /\ readyState'[socket] \in {"CLOSING", "CLOSED"}
            /\ ~mounted' => ws' = 0]_vars

\* the unmount of a session whose connection had opened and was already
\* Closed after an error or a remote close
C20_Witness ==
    /\ last = "unmount Closed"
    /\ ~mounted
    /\ readyState[socket] = "CLOSED"
    /\ sent[socket] # <<>>
    /\ ws = 0

-----------------------------------------------------------------------------
(* C21 *)

\* C21: when the effect is torn down and run again in the same hook instance,
\* the late events of the replaced socket never change the state of the new
\* one: in every reachable state of the mounted hook, isOpen = true implies
\* that the stored handle is non-null, is the socket of the effect in force
\* and is Open, so that a non-empty send made while the indicator shows
\* connected is transmitted.
C21_IndicatorMatchesHandle ==
    (mounted /\ isOpen) =>
        /\ ws # 0
        /\ ws = socket
        /\ readyState[socket] = "OPEN"
        /\ \A input \in Inputs :
             Str(Trim(input)) # "" =>
                 sendMessage(input).sent =
                     [sent EXCEPT ![socket] = Append(@, MessageFrame(Str(Trim(input))))]

-----------------------------------------------------------------------------
(* C22 *)

\* C22: reset() changes only the message list: it transmits no frame and
\* leaves the connection state, the handle and the session identifier as they
\* were, so frames are still received, and a non-empty fragment that arrives
\* after a reset made mid-stream opens a new streaming bubble directly after
\* the seed message.
C22_ResetOnlyList ==
    /\ [][last' \in ResetLabels =>
            UNCHANGED <<isOpen, ws, uuid, socket, readyState, sent, mounted>>]_vars
    /\ [](last = "reset-midstream" =>
            \A s \in Sockets, c \in Chunks :
                Delivers(s) =>
                    receive(s, messages, FragmentFrame(c))
                        = <<SeedMsg, ChatMsg("Bot", c, "true")>>)

\* a reset made mid-stream on an open connection that has carried a user
\* message: the connection is still open and the handle still set
C22_Witness ==
    /\ last = "reset-midstream"
    /\ isOpen
    /\ ws = socket
    /\ Delivers(socket)
    /\ Len(sent[socket]) = 2

-----------------------------------------------------------------------------
(* C23 *)

\* C23: in every reachable state the message list is non-empty and its first
\* element is the seed Bot welcome message, which is not streaming: no frame,
\* submit or reset empties the list or alters or displaces the seed.
C23_SeedFirst ==
    /\ Len(messages) >= 1
    /\ messages[1] = SeedMsg
    /\ messages[1].user = "Bot"
    /\ ~IsStreaming(messages[1])

\* the seed followed by a bubble opened after a reset that removed a user
\* message
C23_Witness ==
    /\ last = "chunk"
    /\ userAppended = 1
    /\ Len(messages) = 2
    /\ messages[1] = SeedMsg
    /\ IsStreaming(messages[2])

====
